---- MODULE Spec2Model ----
(***************************************************************************)
(* Order execution core of mcp_trader: ExchangeClient                      *)
(* (src/src/services/exchange_client.py).                                  *)
(*                                                                         *)
(* One action per public operation of the client.  The exchange (ccxt) is  *)
(* the environment: every answer it gives to a request of the handler is   *)
(* drawn with \E from the answers the library can give (a value or one of  *)
(* its exception classes).  The state keeps the client's own field         *)
(* (self.exchange) and, as history of the call that has just run, the      *)
(* call, the requests it made of the exchange handle in order, the answers *)
(* it consumed and what its caller got back; Return discards the history.  *)
(*                                                                         *)
(* Numbers.  A base-asset quantity is an integer count of 10^-DecPlaces    *)
(* units (decimal.Decimal keeps 28 significant digits; the model keeps     *)
(* DecPlaces fraction digits, rounding half-even as the default context    *)
(* does).  A Python float keeps fewer digits than a Decimal: float(x) is   *)
(* modelled as rounding to FloatSig significant digits, half-even.         *)
(***************************************************************************)
EXTENDS Integers, Sequences, FiniteSets, TLC

VARIABLES exchange, call, reqs, seen, out, calls

\* self.config: the settings the client was constructed with
VARIABLES config

\* History across calls: how many calls of market_buy("BTCUSDT", 100) have
\* succeeded, and how many createOrder requests those calls had accepted.
VARIABLES buys, buyOrders

\* For overlapping calls of close_position (SpecConc): the position the
\* exchange holds for the symbol, the frame of each call in progress, the
\* number of fills so far, and the closing order the exchange executed last.
VARIABLES pos, closer, fills, executed

clientVars == <<exchange, config, call, reqs, seen, out, calls, buys, buyOrders>>

concVars == <<pos, closer, fills, executed>>

vars == <<exchange, config, call, reqs, seen, out, calls, buys, buyOrders, pos, closer, fills, executed>>

---------------------------------------------------------------------------
(* Bounds of the model *)

MaxCalls == 3
MaxPositions == 2
DecPlaces == 5
FloatSig == 3
MaxPos == 2
MaxFills == 1
MaxCloses == 2

---------------------------------------------------------------------------
(* Arithmetic *)

Abs(n) == IF n < 0 THEN -n ELSE n

Sign(n) == IF n < 0 THEN -1 ELSE 1

RECURSIVE Pow10(_)
Pow10(k) == IF k <= 0 THEN 1 ELSE 10 * Pow10(k - 1)

DecScale == Pow10(DecPlaces)

\* number of decimal digits of a natural number (0 has none)
RECURSIVE Digits(_)
Digits(n) == IF n <= 0 THEN 0 ELSE 1 + Digits(n \div 10)

\* n / d for d > 0, rounded to the nearest integer, ties to even
RoundHalfEven(n, d) ==
    LET q == Abs(n) \div d
        r == Abs(n) % d
        up == (2 * r > d) \/ (2 * r = d /\ q % 2 = 1)
    IN  Sign(n) * (IF up THEN q + 1 ELSE q)

\* the weight of the last digit a float keeps for a value of magnitude q
Ulp(q) == Pow10(Digits(Abs(q)) - FloatSig)

\* a plausible slip: truncation (int()) where the code converts with float()
ToFloatTruncating(q) == Sign(q) * ((Abs(q) \div Ulp(q)) * Ulp(q))

\* float(x): the nearest value with FloatSig significant digits
ToFloat(q) == RoundHalfEven(q, Ulp(q)) * Ulp(q)

\* Decimal(a) / Decimal(b), b # 0, in units of 10^-DecPlaces
DecDiv(a, b) == RoundHalfEven(Sign(b) * a * DecScale, Abs(b))

---------------------------------------------------------------------------
(* Exceptions.  msg is the text of str(e) as a sequence of pieces (an       *)
(* f-string "prefix{e}" puts its prefix in front of the pieces of e); nums  *)
(* are the numbers formatted into the text, in order.                       *)

Exc(kind, msg, nums) == [kind |-> kind, msg |-> msg, nums |-> nums]

NoExc == Exc("none", <<>>, <<>>)

\* a plausible slip: a fixed message, the cause not formatted into it
WrapDiscarding(kind, prefix, e) == Exc(kind, <<prefix>>, e.nums)

\* raise Kind(f"{prefix}{e}")
Wrap(kind, prefix, e) == Exc(kind, <<prefix>> \o e.msg, e.nums)

\* the exception classes of ccxt the handlers tell apart, and "any other"
CcxtKinds ==
    {"ccxt.AuthenticationError", "ccxt.NetworkError", "ccxt.InvalidOrder", "ccxt.ExchangeError"}

CcxtText(kind) ==
    CASE kind = "ccxt.AuthenticationError" -> "binance: invalid api key"
      [] kind = "ccxt.NetworkError" -> "binance: connection reset"
      [] kind = "ccxt.InvalidOrder" -> "binance: order would immediately trigger"
      [] OTHER -> "binance: unknown error"

CcxtExc(kind) == Exc(kind, <<CcxtText(kind)>>, <<>>)

\* the kinds of the domain taxonomy, src/src/core/exceptions.py
DomainKinds ==
    {"ConfigurationError", "ValidationError", "ExchangeError", "TradingError",
     "MarketDataError", "RiskManagementError", "AuthenticationError", "NetworkError",
     "InsufficientFundsError", "InvalidOrderError", "PositionNotFoundError"}

---------------------------------------------------------------------------
(* Answers of the exchange handle, requests made of it, results of a call *)

Resp(tag, val, exc) == [tag |-> tag, val |-> val, exc |-> exc]

Ok(v) == Resp("ok", v, NoExc)

Raise(kind) == Resp("raise", 0, CcxtExc(kind))

\* a value whose field is None (ticker['last'], limits.amount.min)
NoneVal == Resp("none", 0, NoExc)

Unused == Resp("unused", 0, NoExc)

\* Optional[Decimal]
NoPrice == [has |-> FALSE, v |-> 0]

Price(v) == [has |-> TRUE, v |-> v]

Req(req, symbol, type, side, amount, price, params) ==
    [req |-> req, symbol |-> symbol, type |-> type, side |-> side,
     amount |-> amount, price |-> price, params |-> params]

TickerReq(symbol) == Req("fetch_ticker", symbol, "", "", 0, NoPrice, {})

MarketReq(symbol) == Req("market", symbol, "", "", 0, NoPrice, {})

PositionsReq(symbol) == Req("fetch_positions", symbol, "", "", 0, NoPrice, {})

LoadMarketsReq == Req("load_markets", "", "", "", 0, NoPrice, {})

OrderReq(symbol, type, side, amount, price, params) ==
    Req("create_order", symbol, type, side, amount, price, params)

Ret(what, n) == [what |-> what, n |-> n]

NoRet == Ret("", 0)

Returned(ret) == [status |-> "returned", exc |-> NoExc, ret |-> ret]

Raised(e) == [status |-> "raised", exc |-> e, ret |-> NoRet]

NoOutcome == [status |-> "none", exc |-> NoExc, ret |-> NoRet]

Done(rs, o) == [reqs |-> rs, out |-> o]

\* the requests of a sequence that are createOrder requests
Orders(rs) == SelectSeq(rs, LAMBDA r : r.req = "create_order")

Has(rs, req) == \E i \in 1..Len(rs) : rs[i].req = req

---------------------------------------------------------------------------
(* ExchangeClient: the handlers, as functions of the answers the exchange   *)
(* gives.  Each yields the requests it made, in order, and its outcome.     *)

\* `if not self.exchange`: __init__ only annotates the attribute, so on a
\* client whose initialize never assigned it the test itself raises
NotInitialized == Raised(Exc("AttributeError", <<"'ExchangeClient' object has no attribute 'exchange'">>, <<>>))

\* a plausible slip: the clause for ccxt.InvalidOrder left out
create_order_handlers_no_invalid(e) ==
    CASE e.kind = "ccxt.AuthenticationError" -> Wrap("AuthenticationError", "Authentication failed: ", e)
      [] e.kind = "ccxt.NetworkError" -> Wrap("NetworkError", "Network error: ", e)
      [] OTHER -> Wrap("TradingError", "Failed to create order: ", e)

\* the except clauses of create_order, first match wins
create_order_handlers(e) ==
    CASE e.kind = "ccxt.AuthenticationError" -> Wrap("AuthenticationError", "Authentication failed: ", e)
      [] e.kind = "ccxt.NetworkError" -> Wrap("NetworkError", "Network error: ", e)
      [] e.kind = "ccxt.InvalidOrder" -> Wrap("InvalidOrderError", "Invalid order: ", e)
      [] OTHER -> Wrap("TradingError", "Failed to create order: ", e)

\* `float(price) if price else None`: None and a zero Decimal are both falsy
SentPrice(price) == IF price.has /\ price.v # 0 THEN Price(ToFloat(price.v)) ELSE NoPrice

\* `params or {}`
OrderParams(params) == params

\* a plausible slip: a refused order is sent once more before giving up
create_order_retrying(ex, symbol, order_type, side, amount, price, params, oResp) ==
    IF ex = "unset" THEN Done(<<>>, NotInitialized)
    ELSE IF order_type = "limit" /\ ~price.has
    THEN Done(<<>>, Raised(create_order_handlers(
             Exc("InvalidOrderError", <<"Price is required for limit orders">>, <<>>))))
    ELSE LET rq == OrderReq(symbol, order_type, side, ToFloat(amount), SentPrice(price),
                            OrderParams(params))
         IN  IF oResp.tag = "raise"
             THEN Done(<<rq, rq>>, Raised(create_order_handlers(oResp.exc)))
             ELSE Done(<<rq>>, Returned(Ret("order", oResp.val)))

create_order(ex, symbol, order_type, side, amount, price, params, oResp) ==
    IF ex = "unset" THEN Done(<<>>, NotInitialized)
    ELSE IF order_type = "limit" /\ ~price.has
    THEN Done(<<>>, Raised(create_order_handlers(
             Exc("InvalidOrderError", <<"Price is required for limit orders">>, <<>>))))
    ELSE LET rq == OrderReq(symbol, order_type, side, ToFloat(amount), SentPrice(price),
                            OrderParams(params))
         IN  IF oResp.tag = "raise"
             THEN Done(<<rq>>, Raised(create_order_handlers(oResp.exc)))
             ELSE Done(<<rq>>, Returned(Ret("order", oResp.val)))

\* the earlier variant (exchange_client_old.py): raise the amount to the minimum
MinAmountClamped(amount, min_amount) ==
    [ok |-> TRUE, amount |-> IF amount < min_amount THEN min_amount ELSE amount, exc |-> NoExc]

\* a plausible slip: the comparison with the minimum left out
MinAmountUnchecked(amount, min_amount) ==
    [ok |-> TRUE, amount |-> amount, exc |-> NoExc]

\* `if amount < min_amount: raise InvalidOrderError(...)`
MinAmountCheck(amount, min_amount) ==
    IF amount < min_amount
    THEN [ok |-> FALSE, amount |-> amount,
          exc |-> Exc("InvalidOrderError",
                      <<"Amount {amount} is less than minimum required amount {min_amount}">>,
                      <<amount, min_amount>>)]
    ELSE [ok |-> TRUE, amount |-> amount, exc |-> NoExc]

\* Decimal(str(ticker['last'])): the float's shortest text, read back exactly
DecimalOfStr(last) == ToFloat(last)

create_usdt_order(ex, symbol, order_type, side, usdt_amount, price, params, tResp, mResp, oResp) ==
    IF ex = "unset" THEN Done(<<>>, NotInitialized)
    ELSE
    LET tq == TickerReq(symbol)
        mq == MarketReq(symbol)
        \* `except Exception as e: raise TradingError(...)`
        fail(rs, e) == Done(rs, Raised(Wrap("TradingError", "Failed to create USDT order: ", e)))
    IN  IF tResp.tag = "raise" THEN fail(<<tq>>, tResp.exc)
        ELSE IF tResp.tag = "none"
        THEN fail(<<tq>>, Exc("decimal.InvalidOperation", <<"[<class 'decimal.ConversionSyntax'>]">>, <<>>))
        ELSE LET current_symbol_price == DecimalOfStr(tResp.val) IN
        IF current_symbol_price = 0
        THEN fail(<<tq>>, IF usdt_amount = 0
                          THEN Exc("decimal.InvalidOperation", <<"[<class 'decimal.DivisionUndefined'>]">>, <<>>)
                          ELSE Exc("decimal.DivisionByZero", <<"[<class 'decimal.DivisionByZero'>]">>, <<>>))
        ELSE LET amount == DecDiv(usdt_amount, current_symbol_price) IN
        IF mResp.tag = "raise" THEN fail(<<tq, mq>>, mResp.exc)
        ELSE IF mResp.tag = "none"
        THEN fail(<<tq, mq>>, Exc("TypeError", <<"'<' not supported between instances of 'decimal.Decimal' and 'NoneType'">>, <<>>))
        ELSE LET chk == MinAmountCheck(amount, mResp.val) IN
        IF ~chk.ok THEN fail(<<tq, mq>>, chk.exc)
        ELSE LET r == create_order(ex, symbol, order_type, side, chk.amount, price, params, oResp)
             IN  IF r.out.status = "raised"
                 THEN fail(<<tq, mq>> \o r.reqs, r.out.exc)
                 ELSE Done(<<tq, mq>> \o r.reqs, r.out)

market_buy(ex, symbol, usdt_amount, tResp, mResp, oResp) ==
    create_usdt_order(ex, symbol, "market", "BUY", usdt_amount, NoPrice, {}, tResp, mResp, oResp)

market_sell(ex, symbol, usdt_amount, tResp, mResp, oResp) ==
    create_usdt_order(ex, symbol, "market", "SELL", usdt_amount, NoPrice, {}, tResp, mResp, oResp)

limit_buy(ex, symbol, usdt_amount, price, tResp, mResp, oResp) ==
    create_usdt_order(ex, symbol, "limit", "BUY", usdt_amount, price, {}, tResp, mResp, oResp)

limit_sell(ex, symbol, usdt_amount, price, tResp, mResp, oResp) ==
    create_usdt_order(ex, symbol, "limit", "SELL", usdt_amount, price, {}, tResp, mResp, oResp)

---------------------------------------------------------------------------
(* close_position *)

\* a position of the snapshot: position['info'], with or without 'positionAmt'
Position(amt) == [has |-> TRUE, amt |-> amt]

NoAmtPosition == [has |-> FALSE, amt |-> 0]

\* float(position['info'].get('positionAmt', 0))
PositionAmt(position) == IF position.has THEN ToFloat(position.amt) ELSE 0

\* a plausible slip: an order on the position's own side
SameSide(position_amt) == IF position_amt > 0 THEN "buy" ELSE "sell"

\* `'sell' if position_amt > 0 else 'buy'`
ClosingSide(position_amt) == IF position_amt > 0 THEN "sell" ELSE "buy"

\* a plausible slip: the directive left out
NoCloseParams == {}

\* params={'reduceOnly': True}
CloseParams == {"reduceOnly"}

\* a plausible slip: a plain market order, no params given
ClosingOrderPlain(symbol, position_amt) ==
    OrderReq(symbol, "market", ClosingSide(position_amt), Abs(position_amt), NoPrice, {})

\* the order close_position sends for a nonzero positionAmt
ClosingOrder(symbol, position_amt) ==
    OrderReq(symbol, "market", ClosingSide(position_amt), Abs(position_amt), NoPrice, CloseParams)

\* a plausible slip: a refused closing order is skipped and the loop goes on
RECURSIVE close_loop_swallowing(_, _, _, _, _, _)
close_loop_swallowing(symbol, positions, i, rs, closed, oResps) ==
    IF i > Len(positions) THEN [reqs |-> rs, exc |-> NoExc, closed |-> closed]
    ELSE LET position_amt == PositionAmt(positions[i]) IN
         IF position_amt # 0
         THEN LET size == Abs(position_amt)
                  side == ClosingSide(position_amt)
                  rq == ClosingOrder(symbol, position_amt)
                  resp == oResps[Len(Orders(rs)) + 1]
              IN  IF resp.tag = "raise"
                  THEN close_loop_swallowing(symbol, positions, i + 1, Append(rs, rq), closed, oResps)
                  ELSE close_loop_swallowing(symbol, positions, i + 1, Append(rs, rq),
                                  Append(closed, [symbol |-> symbol, size |-> size,
                                                  side |-> side, order_id |-> resp.val]),
                                  oResps)
         ELSE close_loop_swallowing(symbol, positions, i + 1, rs, closed, oResps)

\* another policy: after a refused closing order the remaining positions are
\* still closed, and the first failure is raised at the end
RECURSIVE close_loop_continuing(_, _, _, _, _, _)
close_loop_continuing(symbol, positions, i, rs, closed, oResps) ==
    IF i > Len(positions) THEN [reqs |-> rs, exc |-> NoExc, closed |-> closed]
    ELSE LET position_amt == PositionAmt(positions[i]) IN
         IF position_amt # 0
         THEN LET size == Abs(position_amt)
                  side == ClosingSide(position_amt)
                  rq == ClosingOrder(symbol, position_amt)
                  resp == oResps[Len(Orders(rs)) + 1]
              IN  IF resp.tag = "raise"
                  THEN [close_loop_continuing(symbol, positions, i + 1, Append(rs, rq), closed, oResps)
                            EXCEPT !.exc = resp.exc]
                  ELSE close_loop_continuing(symbol, positions, i + 1, Append(rs, rq),
                                  Append(closed, [symbol |-> symbol, size |-> size,
                                                  side |-> side, order_id |-> resp.val]),
                                  oResps)
         ELSE close_loop_continuing(symbol, positions, i + 1, rs, closed, oResps)

\* a plausible slip: the append moved out of the `if`, every position counted
RECURSIVE close_loop_counting_all(_, _, _, _, _, _)
close_loop_counting_all(symbol, positions, i, rs, closed, oResps) ==
    IF i > Len(positions) THEN [reqs |-> rs, exc |-> NoExc, closed |-> closed]
    ELSE LET position_amt == PositionAmt(positions[i]) IN
         IF position_amt # 0
         THEN LET size == Abs(position_amt)
                  side == ClosingSide(position_amt)
                  rq == ClosingOrder(symbol, position_amt)
                  resp == oResps[Len(Orders(rs)) + 1]
              IN  IF resp.tag = "raise"
                  THEN [reqs |-> Append(rs, rq), exc |-> resp.exc, closed |-> closed]
                  ELSE close_loop_counting_all(symbol, positions, i + 1, Append(rs, rq),
                                  Append(closed, [symbol |-> symbol, size |-> size,
                                                  side |-> side, order_id |-> resp.val]),
                                  oResps)
         ELSE close_loop_counting_all(symbol, positions, i + 1, rs,
                                      Append(closed, [symbol |-> symbol, size |-> 0,
                                                      side |-> "", order_id |-> 0]),
                                      oResps)

\* the for loop from position i on: rs are the requests made so far, closed the
\* closed_positions list, oResps[k] the exchange's answer to the k-th createOrder
RECURSIVE close_loop(_, _, _, _, _, _)
close_loop(symbol, positions, i, rs, closed, oResps) ==
    IF i > Len(positions) THEN [reqs |-> rs, exc |-> NoExc, closed |-> closed]
    ELSE LET position_amt == PositionAmt(positions[i]) IN
         IF position_amt # 0
         THEN LET size == Abs(position_amt)
                  side == ClosingSide(position_amt)
                  rq == ClosingOrder(symbol, position_amt)
                  resp == oResps[Len(Orders(rs)) + 1]
              IN  IF resp.tag = "raise"
                  THEN [reqs |-> Append(rs, rq), exc |-> resp.exc, closed |-> closed]
                  ELSE close_loop(symbol, positions, i + 1, Append(rs, rq),
                                  Append(closed, [symbol |-> symbol, size |-> size,
                                                  side |-> side, order_id |-> resp.val]),
                                  oResps)
         ELSE close_loop(symbol, positions, i + 1, rs, closed, oResps)

\* a plausible slip: a last clause that lets the exception through as it is
close_position_handlers_reraise(e) ==
    CASE e.kind = "ccxt.AuthenticationError" -> Wrap("AuthenticationError", "Authentication failed: ", e)
      [] e.kind = "ccxt.NetworkError" -> Wrap("NetworkError", "Network error: ", e)
      [] OTHER -> e

\* the except clauses of close_position
close_position_handlers(e) ==
    CASE e.kind = "ccxt.AuthenticationError" -> Wrap("AuthenticationError", "Authentication failed: ", e)
      [] e.kind = "ccxt.NetworkError" -> Wrap("NetworkError", "Network error: ", e)
      [] OTHER -> Wrap("TradingError", "Failed to close position: ", e)

\* a plausible slip: nothing to close treated as a failure
close_result_not_found(closed) ==
    IF closed = <<>>
    THEN Raised(close_position_handlers(
             Exc("PositionNotFoundError", <<"No open positions found for {symbol}">>, <<>>)))
    ELSE Returned(Ret("Closed {n} position(s) for {symbol}", Len(closed)))

\* `if not closed_positions: return ...` and the message that counts them
close_result(closed) ==
    IF closed = <<>>
    THEN Returned(Ret("No open positions found for {symbol}", 0))
    ELSE Returned(Ret("Closed {n} position(s) for {symbol}", Len(closed)))

close_position(ex, symbol, pResp, oResps) ==
    IF ex = "unset" THEN Done(<<>>, NotInitialized)
    ELSE LET pq == PositionsReq(symbol) IN
         IF pResp.tag = "raise" THEN Done(<<pq>>, Raised(close_position_handlers(pResp.exc)))
         ELSE LET l == close_loop(symbol, pResp.val, 1, <<pq>>, <<>>, oResps) IN
              IF l.exc # NoExc THEN Done(l.reqs, Raised(close_position_handlers(l.exc)))
              ELSE Done(l.reqs, close_result(l.closed))

---------------------------------------------------------------------------
(* the read operations and initialize *)

fetch_ticker(ex, symbol, tResp) ==
    IF ex = "unset" THEN Done(<<>>, NotInitialized)
    ELSE IF tResp.tag = "raise"
    THEN Done(<<TickerReq(symbol)>>, Raised(
             CASE tResp.exc.kind = "ccxt.NetworkError" -> Wrap("NetworkError", "Network error: ", tResp.exc)
               [] OTHER -> Wrap("ExchangeError", "Failed to fetch ticker: ", tResp.exc)))
    ELSE Done(<<TickerReq(symbol)>>, Returned(Ret("ticker", tResp.val)))

fetch_positions(ex, symbol, pResp) ==
    IF ex = "unset" THEN Done(<<>>, NotInitialized)
    ELSE IF pResp.tag = "raise"
    THEN Done(<<PositionsReq(symbol)>>, Raised(
             CASE pResp.exc.kind = "ccxt.AuthenticationError" -> Wrap("AuthenticationError", "Authentication failed: ", pResp.exc)
               [] pResp.exc.kind = "ccxt.NetworkError" -> Wrap("NetworkError", "Network error: ", pResp.exc)
               [] OTHER -> Wrap("ExchangeError", "Failed to fetch positions: ", pResp.exc)))
    ELSE Done(<<PositionsReq(symbol)>>, Returned(Ret("positions", Len(pResp.val))))

BalanceReq == Req("fetch_balance", "", "", "", 0, NoPrice, {})

OpenOrdersReq(symbol) == Req("fetch_open_orders", symbol, "", "", 0, NoPrice, {})

retrieve_balance(ex, bResp) ==
    IF ex = "unset" THEN Done(<<>>, NotInitialized)
    ELSE IF bResp.tag = "raise"
    THEN Done(<<BalanceReq>>, Raised(
             CASE bResp.exc.kind = "ccxt.AuthenticationError" -> Wrap("AuthenticationError", "Authentication failed: ", bResp.exc)
               [] bResp.exc.kind = "ccxt.NetworkError" -> Wrap("NetworkError", "Network error: ", bResp.exc)
               [] OTHER -> Wrap("ExchangeError", "Failed to fetch balance: ", bResp.exc)))
    ELSE Done(<<BalanceReq>>, Returned(Ret("balance", bResp.val)))

fetch_open_orders(ex, symbol, ooResp) ==
    IF ex = "unset" THEN Done(<<>>, NotInitialized)
    ELSE IF ooResp.tag = "raise"
    THEN Done(<<OpenOrdersReq(symbol)>>, Raised(
             CASE ooResp.exc.kind = "ccxt.AuthenticationError" -> Wrap("AuthenticationError", "Authentication failed: ", ooResp.exc)
               [] ooResp.exc.kind = "ccxt.NetworkError" -> Wrap("NetworkError", "Network error: ", ooResp.exc)
               [] OTHER -> Wrap("ExchangeError", "Failed to fetch open orders: ", ooResp.exc)))
    ELSE Done(<<OpenOrdersReq(symbol)>>, Returned(Ret("orders", ooResp.val)))

\* `return self.exchange is not None`: reading the attribute raises when it
\* was never assigned, and an assigned handle is never None
is_connected(ex) ==
    IF ex = "unset" THEN Done(<<>>, NotInitialized)
    ELSE Done(<<>>, Returned(Ret("True", 0)))

\* initialize: the handle is assigned before load_markets is called, so a
\* failure of load_markets leaves a handle whose markets are not loaded
initialize(ex, lResp) ==
    IF lResp.tag = "raise"
    THEN [exchange |-> "unloaded", reqs |-> <<LoadMarketsReq>>,
          out |-> Raised(
             CASE lResp.exc.kind = "ccxt.AuthenticationError" -> Wrap("AuthenticationError", "Exchange authentication failed: ", lResp.exc)
               [] lResp.exc.kind = "ccxt.NetworkError" -> Wrap("NetworkError", "Exchange network error: ", lResp.exc)
               [] OTHER -> Wrap("ExchangeError", "Exchange initialization failed: ", lResp.exc))]
    ELSE [exchange |-> "ready", reqs |-> <<LoadMarketsReq>>, out |-> Returned(Ret("None", 0))]

---------------------------------------------------------------------------
(* The tools (src/src/mcp/tools.py).  A tool returns a string: on success a *)
(* fixed text, on failure f"{prefix}{str(e)}", kept as the pieces of the    *)
(* text (kind "str") so that what it says of the cause can be read.        *)

ToolFailure(prefix, e) == [status |-> "returned", exc |-> Wrap("str", prefix, e), ret |-> Ret(prefix, 0)]

ToolPrefixes ==
    {"Failed to open market long position: ", "Failed to open market short position: ",
     "Failed to open limit long position: ", "Failed to open limit short position: ",
     "Failed to close position: "}

\* a plausible slip: the test of the symbol left out
tool_body_no_symbol_check(prefix, symbol, usdt_amount, r) ==
    IF usdt_amount <= 0
    THEN Done(<<>>, ToolFailure(prefix, Exc("ValidationError", <<"USDT amount must be positive">>, <<>>)))
    ELSE IF r.out.status = "raised"
    THEN Done(r.reqs, ToolFailure(prefix, r.out.exc))
    ELSE Done(r.reqs, Returned(Ret("Position opened successfully", 0)))

\* a plausible slip: the except clause only logs, and the success text is
\* returned after it
tool_body_logging_only(prefix, symbol, usdt_amount, r) ==
    IF symbol = "" \/ usdt_amount <= 0
    THEN Done(<<>>, Returned(Ret("Position opened successfully", 0)))
    ELSE Done(r.reqs, Returned(Ret("Position opened successfully", 0)))

\* the body the four opening tools share: the two validations, the call of
\* the client (r is what it did), the success text, `except Exception`
tool_body(prefix, symbol, usdt_amount, r) ==
    IF symbol = ""
    THEN Done(<<>>, ToolFailure(prefix, Exc("ValidationError", <<"Symbol is required">>, <<>>)))
    ELSE IF usdt_amount <= 0
    THEN Done(<<>>, ToolFailure(prefix, Exc("ValidationError", <<"USDT amount must be positive">>, <<>>)))
    ELSE IF r.out.status = "raised"
    THEN Done(r.reqs, ToolFailure(prefix, r.out.exc))
    ELSE Done(r.reqs, Returned(Ret("Position opened successfully", 0)))

open_market_long(ex, symbol, usdt_amount, tResp, mResp, oResp) ==
    tool_body("Failed to open market long position: ", symbol, usdt_amount,
              market_buy(ex, symbol, usdt_amount, tResp, mResp, oResp))

open_market_short(ex, symbol, usdt_amount, tResp, mResp, oResp) ==
    tool_body("Failed to open market short position: ", symbol, usdt_amount,
              market_sell(ex, symbol, usdt_amount, tResp, mResp, oResp))

open_limit_long(ex, symbol, usdt_amount, price, tResp, mResp, oResp) ==
    tool_body("Failed to open limit long position: ", symbol, usdt_amount,
              limit_buy(ex, symbol, usdt_amount, price, tResp, mResp, oResp))

open_limit_short(ex, symbol, usdt_amount, price, tResp, mResp, oResp) ==
    tool_body("Failed to open limit short position: ", symbol, usdt_amount,
              limit_sell(ex, symbol, usdt_amount, price, tResp, mResp, oResp))

\* the close_position tool: the client's result string, or the failure text
close_position_tool(ex, symbol, pResp, oResps) ==
    IF symbol = ""
    THEN Done(<<>>, ToolFailure("Failed to close position: ",
                                Exc("ValidationError", <<"Symbol is required">>, <<>>)))
    ELSE LET r == close_position(ex, symbol, pResp, oResps) IN
         IF r.out.status = "raised"
         THEN Done(r.reqs, ToolFailure("Failed to close position: ", r.out.exc))
         ELSE Done(r.reqs, r.out)

---------------------------------------------------------------------------
(* Inputs of the calls and answers of the exchange *)

Symbols == {"", "BTCUSDT"}

UsdtAmounts == {-5, 0, 2, 100}

LastPrices == {0, 3, 50000}

Prices == {NoPrice, Price(-1), Price(0), Price(7)}

OrderTypes == {"market", "limit"}

OrderSides == {"BUY", "SELL"}

\* Decimal amounts given to create_order directly: 0.002 and 0.66667
Amounts == {DecScale \div 500, RoundHalfEven(2 * DecScale, 3)}

ParamSets == {{}, {"reduceOnly"}}

\* limits.amount.min of the symbol: 0.001 or 0.01
MinAmounts == {DecScale \div 1000, DecScale \div 100}

PositionValues == {NoAmtPosition, Position(0), Position(5 * DecScale), Position(-3 * DecScale)}

RECURSIVE SeqsUpTo(_, _)
SeqsUpTo(S, n) ==
    IF n = 0 THEN {<<>>}
    ELSE LET shorter == SeqsUpTo(S, n - 1)
         IN  shorter \cup {Append(q, x) : q \in {t \in shorter : Len(t) = n - 1}, x \in S}

Snapshots == SeqsUpTo(PositionValues, MaxPositions)

Failures == {Raise(k) : k \in CcxtKinds}

TickerResps == {Ok(p) : p \in LastPrices} \cup {NoneVal} \cup Failures

\* market() is a lookup in the loaded metadata: it answers, or raises BadSymbol
\* / "markets not loaded" (both ccxt.ExchangeError)
MarketResps == {Ok(m) : m \in MinAmounts} \cup {NoneVal, Raise("ccxt.ExchangeError")}

OrderResps == {Ok(1)} \cup Failures

PositionsResps == {Resp("ok", ps, NoExc) : ps \in Snapshots} \cup Failures

UnusedSnapshot == Resp("unused", <<>>, NoExc)

\* the answers to the createOrder requests of one close_position: all accepted
\* (failAt = 0) or the failAt-th refused; the order id is the request's number
CloseOrderResps(failAt, f) == [k \in 1..MaxPositions |-> IF k = failAt THEN f ELSE Ok(k)]

\* the answers a notional operation can consume: when the ticker fetch fails
\* nothing further is asked, when the metadata lookup fails no order is sent
NotionalAnswers ==
    {<<t, Unused, Unused>> : t \in {NoneVal} \cup Failures}
    \cup {<<t, m, Unused>> : t \in {Ok(p) : p \in LastPrices}, m \in {NoneVal, Raise("ccxt.ExchangeError")}}
    \cup ({Ok(p) : p \in LastPrices} \X {Ok(m) : m \in MinAmounts} \X OrderResps)

---------------------------------------------------------------------------
(* The state machine *)

\* self.exchange: never assigned, a handle whose load_markets failed, a handle
\* with its markets loaded
ExchangeStates == {"unset", "unloaded", "ready"}

NoCall == [op |-> "none", symbol |-> "", order_type |-> "", side |-> "", amount |-> 0,
           price |-> NoPrice, params |-> {}]

Call(op, symbol, order_type, side, amount, price, params) ==
    [op |-> op, symbol |-> symbol, order_type |-> order_type, side |-> side,
     amount |-> amount, price |-> price, params |-> params]

NothingSeen == [ticker |-> Unused, market |-> Unused, orders |-> <<>>, positions |-> UnusedSnapshot]

\* the answers the call consumed: one per request it made
Seen(rs, t, m, os, p) ==
    [ticker |-> IF Has(rs, "fetch_ticker") THEN t ELSE Unused,
     market |-> IF Has(rs, "market") THEN m ELSE Unused,
     orders |-> SubSeq(os, 1, IF Len(Orders(rs)) < Len(os) THEN Len(Orders(rs)) ELSE Len(os)),
     positions |-> IF Has(rs, "fetch_positions") THEN p ELSE UnusedSnapshot]

\* Settings as get_settings() gives them with nothing set in the environment
DefaultSettings == [sandbox_mode |-> TRUE, debug |-> FALSE]

\* the callers that may have a close_position in progress at the same time
Closers == {"a", "b"}

\* the frame of one call of close_position: where it is, its locals
\* (positions, the loop's index, closed_positions), its outcome; and as
\* history the fetch_positions requests it made, the answer it got, the
\* createOrder requests it sent, the calls this caller completed before and
\* the snapshot the last of them had
NoFrame == [pc |-> "idle", positions |-> <<>>, i |-> 0, closed |-> <<>>, out |-> NoOutcome,
            asked |-> 0, answer |-> <<>>, sent |-> <<>>]

NoCloser == [frame |-> NoFrame, n |-> 0, earlier |-> <<>>]

NothingExecuted == [has |-> FALSE, before |-> 0, after |-> 0, size |-> 0]

ConcIdle ==
    /\ pos = 0
    /\ closer = [c \in Closers |-> NoCloser]
    /\ fills = 0
    /\ executed = NothingExecuted

Init ==
    /\ exchange = "unset"
    /\ call = NoCall
    /\ reqs = <<>>
    /\ seen = NothingSeen
    /\ out = NoOutcome
    /\ calls = 0
    /\ config = DefaultSettings
    /\ buys = 0
    /\ buyOrders = 0
    /\ ConcIdle

\* no call is in progress and none is waiting to be returned
Idle == call.op = "none"

\* a successful call of market_buy with the arguments the history follows
RepeatedBuy(c, r) ==
    /\ c.op = "market_buy" /\ c.symbol = "BTCUSDT" /\ c.amount = 100
    /\ r.out.status = "returned"

\* a plausible slip: after a network failure the handle is dropped, to be
\* made anew by the next initialize
FinishDroppingHandle(c, r, sn) ==
    /\ Idle
    /\ calls < MaxCalls
    /\ calls' = calls + 1
    /\ call' = c
    /\ reqs' = r.reqs
    /\ out' = r.out
    /\ seen' = sn
    /\ buys' = buys + (IF RepeatedBuy(c, r) THEN 1 ELSE 0)
    /\ buyOrders' = buyOrders + (IF RepeatedBuy(c, r) THEN Len(Orders(r.reqs)) ELSE 0)
    /\ exchange' = IF r.out.status = "raised" /\ r.out.exc.kind = "NetworkError"
                   THEN "unset" ELSE exchange
    /\ UNCHANGED config
    /\ UNCHANGED concVars

\* one call of an operation that leaves self.exchange alone
Finish(c, r, sn) ==
    /\ Idle
    /\ calls < MaxCalls
    /\ calls' = calls + 1
    /\ call' = c
    /\ reqs' = r.reqs
    /\ out' = r.out
    /\ seen' = sn
    /\ buys' = buys + (IF RepeatedBuy(c, r) THEN 1 ELSE 0)
    /\ buyOrders' = buyOrders + (IF RepeatedBuy(c, r) THEN Len(Orders(r.reqs)) ELSE 0)
    /\ UNCHANGED <<exchange, config>>
    /\ UNCHANGED concVars

Initialize ==
    \E l \in {Ok(0)} \cup Failures :
        LET r == initialize(exchange, l) IN
        /\ Idle
        /\ calls < MaxCalls
        /\ calls' = calls + 1
        /\ exchange' = r.exchange
        /\ call' = Call("initialize", "", "", "", 0, NoPrice, {})
        /\ reqs' = r.reqs
        /\ out' = r.out
        /\ seen' = NothingSeen
        /\ UNCHANGED <<config, buys, buyOrders>>
        /\ UNCHANGED concVars

\* a plausible slip: a buy equal to one that already succeeded is taken for a
\* repetition and answered without a new order
MarketBuyDeduplicating ==
    /\ Idle
    /\ \E symbol \in Symbols, usdt_amount \in UsdtAmounts, a \in NotionalAnswers :
        LET r0 == market_buy(exchange, symbol, usdt_amount, a[1], a[2], a[3])
            c == Call("market_buy", symbol, "market", "BUY", usdt_amount, NoPrice, {})
            r == IF buys > 0 /\ RepeatedBuy(c, r0) THEN Done(<<>>, r0.out) ELSE r0
        IN  Finish(c, r, Seen(r.reqs, a[1], a[2], <<a[3]>>, UnusedSnapshot))

MarketBuy ==
    /\ Idle
    /\ \E symbol \in Symbols, usdt_amount \in UsdtAmounts, a \in NotionalAnswers :
        LET r == market_buy(exchange, symbol, usdt_amount, a[1], a[2], a[3]) IN
        Finish(Call("market_buy", symbol, "market", "BUY", usdt_amount, NoPrice, {}), r,
               Seen(r.reqs, a[1], a[2], <<a[3]>>, UnusedSnapshot))

MarketSell ==
    /\ Idle
    /\ \E symbol \in Symbols, usdt_amount \in UsdtAmounts, a \in NotionalAnswers :
        LET r == market_sell(exchange, symbol, usdt_amount, a[1], a[2], a[3]) IN
        Finish(Call("market_sell", symbol, "market", "SELL", usdt_amount, NoPrice, {}), r,
               Seen(r.reqs, a[1], a[2], <<a[3]>>, UnusedSnapshot))

LimitBuy ==
    /\ Idle
    /\ \E symbol \in Symbols, usdt_amount \in UsdtAmounts, price \in Prices, a \in NotionalAnswers :
        LET r == limit_buy(exchange, symbol, usdt_amount, price, a[1], a[2], a[3]) IN
        Finish(Call("limit_buy", symbol, "limit", "BUY", usdt_amount, price, {}), r,
               Seen(r.reqs, a[1], a[2], <<a[3]>>, UnusedSnapshot))

LimitSell ==
    /\ Idle
    /\ \E symbol \in Symbols, usdt_amount \in UsdtAmounts, price \in Prices, a \in NotionalAnswers :
        LET r == limit_sell(exchange, symbol, usdt_amount, price, a[1], a[2], a[3]) IN
        Finish(Call("limit_sell", symbol, "limit", "SELL", usdt_amount, price, {}), r,
               Seen(r.reqs, a[1], a[2], <<a[3]>>, UnusedSnapshot))

\* create_usdt_order called directly
CreateUsdtOrder ==
    /\ Idle
    /\ \E order_type \in OrderTypes, side \in OrderSides, price \in Prices, params \in ParamSets,
       a \in NotionalAnswers :
        LET r == create_usdt_order(exchange, "BTCUSDT", order_type, side, 100, price, params,
                                   a[1], a[2], a[3]) IN
        Finish(Call("create_usdt_order", "BTCUSDT", order_type, side, 100, price, params), r,
               Seen(r.reqs, a[1], a[2], <<a[3]>>, UnusedSnapshot))

\* create_order called directly
CreateOrder ==
    /\ Idle
    /\ \E symbol \in Symbols, order_type \in OrderTypes, side \in OrderSides, amount \in Amounts,
       price \in Prices, params \in ParamSets, o \in OrderResps :
        LET r == create_order(exchange, symbol, order_type, side, amount, price, params, o) IN
        Finish(Call("create_order", symbol, order_type, side, amount, price, params), r,
               Seen(r.reqs, Unused, Unused, <<o>>, UnusedSnapshot))

ClosePosition ==
    /\ Idle
    /\ \E symbol \in Symbols, p \in PositionsResps, failAt \in 0..MaxPositions, f \in Failures :
        LET os == CloseOrderResps(failAt, f)
            r == close_position(exchange, symbol, p, os) IN
        Finish(Call("close_position", symbol, "", "", 0, NoPrice, {}), r,
               Seen(r.reqs, Unused, Unused, os, p))

FetchTicker ==
    /\ Idle
    /\ \E symbol \in Symbols, t \in TickerResps :
        LET r == fetch_ticker(exchange, symbol, t) IN
        Finish(Call("fetch_ticker", symbol, "", "", 0, NoPrice, {}), r,
               Seen(r.reqs, t, Unused, <<>>, UnusedSnapshot))

FetchPositions ==
    /\ Idle
    /\ \E symbol \in Symbols, p \in PositionsResps :
        LET r == fetch_positions(exchange, symbol, p) IN
        Finish(Call("fetch_positions", symbol, "", "", 0, NoPrice, {}), r,
               Seen(r.reqs, Unused, Unused, <<>>, p))

\* the answers to fetch_balance and fetch_open_orders are not kept in seen
RetrieveBalance ==
    /\ Idle
    /\ \E b \in {Ok(0)} \cup Failures :
        LET r == retrieve_balance(exchange, b) IN
        Finish(Call("retrieve_balance", "", "", "", 0, NoPrice, {}), r,
               Seen(r.reqs, Unused, Unused, <<>>, UnusedSnapshot))

FetchOpenOrders ==
    /\ Idle
    /\ \E symbol \in Symbols, oo \in {Ok(0)} \cup Failures :
        LET r == fetch_open_orders(exchange, symbol, oo) IN
        Finish(Call("fetch_open_orders", symbol, "", "", 0, NoPrice, {}), r,
               Seen(r.reqs, Unused, Unused, <<>>, UnusedSnapshot))

IsConnected ==
    LET r == is_connected(exchange) IN
    Finish(Call("is_connected", "", "", "", 0, NoPrice, {}), r, NothingSeen)

\* the caller has the result: the call's frame and everything it read are gone
Return ==
    /\ ~Idle
    /\ call' = NoCall
    /\ reqs' = <<>>
    /\ seen' = NothingSeen
    /\ out' = NoOutcome
    /\ UNCHANGED <<exchange, config, calls, buys, buyOrders>>
    /\ UNCHANGED concVars

Next ==
    \/ Initialize
    \/ MarketBuy
    \/ MarketSell
    \/ LimitBuy
    \/ LimitSell
    \/ CreateUsdtOrder
    \/ CreateOrder
    \/ ClosePosition
    \/ FetchTicker
    \/ FetchPositions
    \/ RetrieveBalance
    \/ FetchOpenOrders
    \/ IsConnected
    \/ Return

Spec == Init /\ [][Next]_vars

---------------------------------------------------------------------------
(* Overlapping calls of close_position on one symbol.  The client adds no   *)
(* locking: each call runs its own frame, one step per request it makes of *)
(* the exchange; between two steps of a call the other call may step and   *)
(* the position may be filled.                                             *)

ClosedSymbol == "BTCUSDT"

\* BUY or SELL, however the request spells it
SideOf(s) == IF s \in {"buy", "BUY"} THEN "BUY" ELSE IF s \in {"sell", "SELL"} THEN "SELL" ELSE s

\* The exchange executing a market order against the position p it holds.  A
\* reduce-only order only decreases the position: it is refused when it would
\* add to the position or there is none, and fills at most the position's size.
Execute(p, rq) ==
    LET d == IF SideOf(rq.side) = "BUY" THEN rq.amount ELSE 0 - rq.amount IN
    IF "reduceOnly" \in rq.params
    THEN IF p = 0 \/ Sign(d) = Sign(p)
         THEN [rejected |-> TRUE, pos |-> p]
         ELSE LET filled == IF Abs(d) < Abs(p) THEN Abs(d) ELSE Abs(p)
              IN  [rejected |-> FALSE, pos |-> p + Sign(d) * filled]
    ELSE [rejected |-> FALSE, pos |-> p + d]

\* the calls of close_position begun so far
Started ==
    LET RECURSIVE Sum(_)
        Sum(S) == IF S = {} THEN 0
                  ELSE LET c == CHOOSE x \in S : TRUE
                       IN  closer[c].n + (IF closer[c].frame.pc = "idle" THEN 0 ELSE 1) + Sum(S \ {c})
    IN  Sum(Closers)

\* the snapshot fetch_positions([symbol]) gives when the position is p
SnapshotOf(p) == <<Position(p)>>

\* a plausible slip: the snapshot of this caller's previous call is kept and
\* used again, no request made
FetchPositionsCached(c) ==
    /\ closer[c].frame.pc = "idle"
    /\ Started < MaxCloses
    /\ IF exchange = "unset"
       THEN closer' = [closer EXCEPT ![c].frame = [NoFrame EXCEPT !.pc = "done", !.out = NotInitialized]]
       ELSE IF closer[c].n > 0
       THEN closer' = [closer EXCEPT ![c].frame =
                         [NoFrame EXCEPT !.pc = "loop", !.positions = closer[c].earlier, !.i = 1]]
       ELSE \E ans \in {Resp("ok", SnapshotOf(pos), NoExc), Raise("ccxt.NetworkError")} :
              closer' = [closer EXCEPT ![c].frame =
                  IF ans.tag = "raise"
                  THEN [NoFrame EXCEPT !.pc = "done", !.asked = 1,
                                       !.out = Raised(close_position_handlers(ans.exc))]
                  ELSE [NoFrame EXCEPT !.pc = "loop", !.positions = ans.val, !.i = 1,
                                       !.asked = 1, !.answer = ans.val]]
    /\ UNCHANGED <<pos, fills, executed>>
    /\ UNCHANGED clientVars

\* close_position up to its fetch: `if not self.exchange`, then
\* `positions = self.exchange.fetch_positions([symbol])`
FetchPositionsStep(c) ==
    /\ closer[c].frame.pc = "idle"
    /\ Started < MaxCloses
    /\ IF exchange = "unset"
       THEN closer' = [closer EXCEPT ![c].frame = [NoFrame EXCEPT !.pc = "done", !.out = NotInitialized]]
       ELSE \E ans \in {Resp("ok", SnapshotOf(pos), NoExc), Raise("ccxt.NetworkError")} :
              closer' = [closer EXCEPT ![c].frame =
                  IF ans.tag = "raise"
                  THEN [NoFrame EXCEPT !.pc = "done", !.asked = 1,
                                       !.out = Raised(close_position_handlers(ans.exc))]
                  ELSE [NoFrame EXCEPT !.pc = "loop", !.positions = ans.val, !.i = 1,
                                       !.asked = 1, !.answer = ans.val]]
    /\ UNCHANGED <<pos, fills, executed>>
    /\ UNCHANGED clientVars

\* one turn of `for position in positions`, or the end of the loop and the
\* result; a closing order is executed by the exchange when it arrives
LoopStep(c) ==
    LET f == closer[c].frame IN
    /\ f.pc = "loop"
    /\ IF f.i > Len(f.positions)
       THEN /\ closer' = [closer EXCEPT ![c].frame = [f EXCEPT !.pc = "done", !.out = close_result(f.closed)]]
            /\ UNCHANGED <<pos, executed>>
       ELSE LET position_amt == PositionAmt(f.positions[f.i]) IN
            IF position_amt = 0
            THEN /\ closer' = [closer EXCEPT ![c].frame = [f EXCEPT !.i = f.i + 1]]
                 /\ UNCHANGED <<pos, executed>>
            ELSE LET rq == ClosingOrder(ClosedSymbol, position_amt)
                     r == Execute(pos, rq)
                 IN  \E lost \in BOOLEAN :
                       IF lost \/ r.rejected
                       THEN /\ closer' = [closer EXCEPT ![c].frame =
                                   [f EXCEPT !.pc = "done", !.sent = Append(f.sent, rq),
                                             !.out = Raised(close_position_handlers(
                                                 CcxtExc(IF lost THEN "ccxt.NetworkError"
                                                                 ELSE "ccxt.InvalidOrder")))]]
                            /\ UNCHANGED <<pos, executed>>
                       ELSE /\ pos' = r.pos
                            /\ executed' = [has |-> TRUE, before |-> pos, after |-> r.pos,
                                            size |-> rq.amount]
                            /\ closer' = [closer EXCEPT ![c].frame =
                                   [f EXCEPT !.i = f.i + 1, !.sent = Append(f.sent, rq),
                                             !.closed = Append(f.closed,
                                                 [symbol |-> ClosedSymbol, size |-> rq.amount,
                                                  side |-> rq.side, order_id |-> 1])]]
    /\ UNCHANGED fills
    /\ UNCHANGED clientVars

\* the call returns or raises: its frame is gone
ReturnStep(c) ==
    /\ closer[c].frame.pc = "done"
    /\ closer' = [closer EXCEPT ![c] = [frame |-> NoFrame, n |-> closer[c].n + 1,
                                        earlier |-> closer[c].frame.answer]]
    /\ UNCHANGED <<pos, fills, executed>>
    /\ UNCHANGED clientVars

\* an order of somebody else, or another open order of the account, fills:
\* the position moves to any other size, on either side
Fill ==
    /\ fills < MaxFills
    /\ fills' = fills + 1
    /\ \E p \in ((0 - MaxPos)..MaxPos) \ {pos} : pos' = p
    /\ UNCHANGED <<closer, executed>>
    /\ UNCHANGED clientVars

InitConc ==
    /\ exchange \in {"unset", "ready"}
    /\ call = NoCall
    /\ reqs = <<>>
    /\ seen = NothingSeen
    /\ out = NoOutcome
    /\ calls = 0
    /\ config = DefaultSettings
    /\ buys = 0
    /\ buyOrders = 0
    /\ pos \in (0 - MaxPos)..MaxPos
    /\ closer = [c \in Closers |-> NoCloser]
    /\ fills = 0
    /\ executed = NothingExecuted

NextConc ==
    \/ \E c \in Closers : FetchPositionsStep(c)
    \/ \E c \in Closers : LoopStep(c)
    \/ \E c \in Closers : ReturnStep(c)
    \/ Fill

SpecConc == InitConc /\ [][NextConc]_vars

---------------------------------------------------------------------------
(* The tools, and the client operations they call when called directly, on *)
(* a client in any of the states its construction and initialize can leave *)
(* it in.                                                                  *)

\* `price: int`: a tool always passes a price on
ToolPrices == Prices \ {NoPrice}

OpenMarketLong ==
    /\ Idle
    /\ \E symbol \in Symbols, usdt_amount \in UsdtAmounts, a \in NotionalAnswers :
        LET r == open_market_long(exchange, symbol, usdt_amount, a[1], a[2], a[3]) IN
        Finish(Call("open_market_long", symbol, "market", "BUY", usdt_amount, NoPrice, {}), r,
               Seen(r.reqs, a[1], a[2], <<a[3]>>, UnusedSnapshot))

OpenMarketShort ==
    /\ Idle
    /\ \E symbol \in Symbols, usdt_amount \in UsdtAmounts, a \in NotionalAnswers :
        LET r == open_market_short(exchange, symbol, usdt_amount, a[1], a[2], a[3]) IN
        Finish(Call("open_market_short", symbol, "market", "SELL", usdt_amount, NoPrice, {}), r,
               Seen(r.reqs, a[1], a[2], <<a[3]>>, UnusedSnapshot))

OpenLimitLong ==
    /\ Idle
    /\ \E symbol \in Symbols, usdt_amount \in UsdtAmounts, price \in ToolPrices, a \in NotionalAnswers :
        LET r == open_limit_long(exchange, symbol, usdt_amount, price, a[1], a[2], a[3]) IN
        Finish(Call("open_limit_long", symbol, "limit", "BUY", usdt_amount, price, {}), r,
               Seen(r.reqs, a[1], a[2], <<a[3]>>, UnusedSnapshot))

OpenLimitShort ==
    /\ Idle
    /\ \E symbol \in Symbols, usdt_amount \in UsdtAmounts, price \in ToolPrices, a \in NotionalAnswers :
        LET r == open_limit_short(exchange, symbol, usdt_amount, price, a[1], a[2], a[3]) IN
        Finish(Call("open_limit_short", symbol, "limit", "SELL", usdt_amount, price, {}), r,
               Seen(r.reqs, a[1], a[2], <<a[3]>>, UnusedSnapshot))

ClosePositionTool ==
    /\ Idle
    /\ \E symbol \in Symbols, p \in PositionsResps, failAt \in 0..MaxPositions, f \in Failures :
        LET os == CloseOrderResps(failAt, f)
            r == close_position_tool(exchange, symbol, p, os) IN
        Finish(Call("close_position_tool", symbol, "", "", 0, NoPrice, {}), r,
               Seen(r.reqs, Unused, Unused, os, p))

InitTools ==
    /\ exchange \in ExchangeStates
    /\ call = NoCall
    /\ reqs = <<>>
    /\ seen = NothingSeen
    /\ out = NoOutcome
    /\ calls = 0
    /\ config = DefaultSettings
    /\ buys = 0
    /\ buyOrders = 0
    /\ ConcIdle

NextTools ==
    \/ OpenMarketLong
    \/ OpenMarketShort
    \/ OpenLimitLong
    \/ OpenLimitShort
    \/ ClosePositionTool
    \/ MarketBuy
    \/ MarketSell
    \/ LimitBuy
    \/ LimitSell
    \/ ClosePosition
    \/ Return

SpecTools == InitTools /\ [][NextTools]_vars

---------------------------------------------------------------------------
(* Vocabulary of the properties *)

Notional == call.op \in {"market_buy", "market_sell", "limit_buy", "limit_sell"}

\* the call got a last price P > 0 and the symbol's minimum from the exchange
Priced == seen.ticker.tag = "ok" /\ seen.ticker.val > 0 /\ seen.market.tag = "ok"

\* usdt_amount / P < minimum, as rationals (the minimum counts 10^-DecPlaces units)
BelowMinimum == call.amount * DecScale < seen.market.val * seen.ticker.val

SentOrders == Orders(reqs)

\* the call runs on an initialized client with arguments a caller means: a
\* symbol, a positive notional, a positive price where one is given
Sensible ==
    /\ exchange = "ready"
    /\ call.op # "none"
    /\ call.symbol # ""
    /\ call.op \in {"market_buy", "market_sell", "limit_buy", "limit_sell", "create_usdt_order"}
           => call.amount > 0
    /\ call.price.has => call.price.v > 0

\* the answers of the exchange the call consumed that were failures
FailuresSeen ==
    {r.exc.kind : r \in {x \in {seen.ticker, seen.market} \cup {seen.orders[i] : i \in 1..Len(seen.orders)} :
                         x.tag = "raise"}}
    \cup (IF seen.positions.tag = "raise" THEN {seen.positions.exc.kind} ELSE {})

---------------------------------------------------------------------------
(* Properties *)

\* C1: a call of market_buy, market_sell, limit_buy or limit_sell whose
\* usdt_amount / last_price is strictly below the symbol's minimum sends no
\* createOrder request at all (so none with the quantity raised to the minimum).
C1_NoOrderBelowMinimum ==
    (Notional /\ Priced /\ BelowMinimum) => SentOrders = <<>>

C1_Witness ==
    /\ Notional /\ Priced /\ BelowMinimum
    /\ call.amount > 0
    /\ Has(reqs, "fetch_ticker") /\ Has(reqs, "market")
    /\ out.status = "raised"

\* C2: every order close_position sends is a MARKET order with reduceOnly set.
C2_CloseOrdersReduceOnly ==
    call.op = "close_position" =>
        \A i \in 1..Len(SentOrders) :
            SentOrders[i].type = "market" /\ "reduceOnly" \in SentOrders[i].params

C2_Witness ==
    /\ call.op = "close_position"
    /\ Len(SentOrders) = 2
    /\ out.status = "returned"

\* the signed amounts of the snapshot's positions that are not zero, in order
NonzeroAmts(ps) ==
    LET nz == SelectSeq(ps, LAMBDA p : p.has /\ p.amt # 0)
    IN  [i \in 1..Len(nz) |-> nz[i].amt]

\* C3: the closing orders are those of the snapshot's nonzero positions, in
\* order: for amount a the order has size |a| and side SELL when a > 0, BUY when
\* a < 0; zero-amount positions get none, and a close_position that completes
\* has sent one for every nonzero position.
C3_ClosingOrderShape ==
    (call.op = "close_position" /\ seen.positions.tag = "ok") =>
        LET amts == NonzeroAmts(seen.positions.val) IN
        /\ Len(SentOrders) <= Len(amts)
        /\ \A i \in 1..Len(SentOrders) :
               /\ SentOrders[i].amount = Abs(amts[i])
               /\ SideOf(SentOrders[i].side) = (IF amts[i] > 0 THEN "SELL" ELSE "BUY")
        /\ out.status = "returned" => Len(SentOrders) = Len(amts)

C3_Witness ==
    /\ call.op = "close_position"
    /\ seen.positions.tag = "ok"
    /\ seen.positions.val = <<Position(5 * DecScale), Position(-3 * DecScale)>>
    /\ Len(SentOrders) = 2
    /\ SentOrders[1].amount = 5 * DecScale /\ SideOf(SentOrders[1].side) = "SELL"
    /\ SentOrders[2].amount = 3 * DecScale /\ SideOf(SentOrders[2].side) = "BUY"

\* C4: when usdt_amount > 0, P > 0 and usdt_amount / P is at or above the
\* minimum, the order a notional operation sends carries usdt_amount / P: the
\* quotient itself when a float holds it, and otherwise the quotient to within
\* the rounding of the decimal context and of the float (half a unit each); it
\* is not raised to the minimum.
C4_QuantityIsQuotient ==
    (Notional /\ Priced /\ call.amount > 0 /\ ~BelowMinimum) =>
        \A i \in 1..Len(SentOrders) :
            LET sent == SentOrders[i].amount
                P == seen.ticker.val
                n == call.amount * DecScale
            IN  /\ 2 * Abs(sent * P - n) <= P * (Ulp(sent) + 1)
                /\ (n % P = 0 /\ (n \div P) % Ulp(n \div P) = 0) => sent = n \div P

C4_Witness ==
    /\ call.op = "market_buy" /\ call.amount = 100
    /\ seen.ticker = Ok(50000) /\ seen.market = Ok(DecScale \div 1000)
    /\ Len(SentOrders) = 1
    /\ SentOrders[1].amount = DecScale \div 500
    /\ out.status = "returned"

\* C5: when the computed quantity is below the minimum, the caller of a
\* notional operation gets InvalidOrderError carrying quantity and minimum.
C5_BelowMinimumIsInvalidOrderError ==
    (Sensible /\ Notional /\ Priced /\ BelowMinimum) =>
        /\ out.status = "raised"
        /\ out.exc.kind = "InvalidOrderError"
        /\ out.exc.nums = <<DecDiv(call.amount, seen.ticker.val), seen.market.val>>

\* C6: a LIMIT order given to create_order without a price fails with
\* InvalidOrderError and no createOrder request reaches the exchange.
C6_LimitWithoutPriceIsInvalidOrderError ==
    (Sensible /\ call.op = "create_order" /\ call.order_type = "limit" /\ ~call.price.has) =>
        /\ out.status = "raised"
        /\ out.exc.kind = "InvalidOrderError"
        /\ SentOrders = <<>>

\* C7: a MARKET order given to create_order or create_usdt_order together with
\* a price is rejected: the call fails and no createOrder request is sent.
C7_MarketWithPriceRejected ==
    (/\ Sensible
     /\ call.op \in {"create_order", "create_usdt_order"}
     /\ call.order_type = "market"
     /\ call.price.has) =>
        /\ out.status = "raised"
        /\ SentOrders = <<>>

\* C8: a call in which the exchange answered a request with an authentication
\* failure fails with AuthenticationError.
C8_AuthenticationFailureSurfaces ==
    (Sensible /\ "ccxt.AuthenticationError" \in FailuresSeen) =>
        /\ out.status = "raised"
        /\ out.exc.kind = "AuthenticationError"

\* the domain kind create_order is to give for a failure of createOrder
C9_Kind(k) ==
    CASE k = "ccxt.AuthenticationError" -> "AuthenticationError"
      [] k = "ccxt.NetworkError" -> "NetworkError"
      [] k = "ccxt.InvalidOrder" -> "InvalidOrderError"
      [] OTHER -> "TradingError"

\* C9: create_order maps a failure of the createOrder request by kind:
\* authentication to AuthenticationError, connectivity to NetworkError, rejected
\* order parameters to InvalidOrderError, anything else to TradingError.
C9_CreateOrderMapsFailures ==
    (call.op = "create_order" /\ Len(seen.orders) = 1 /\ seen.orders[1].tag = "raise") =>
        /\ out.status = "raised"
        /\ out.exc.kind = C9_Kind(seen.orders[1].exc.kind)

C9_Witness ==
    /\ call.op = "create_order"
    /\ Len(seen.orders) = 1
    /\ seen.orders[1] = Raise("ccxt.InvalidOrder")
    /\ out.exc.kind = "InvalidOrderError"

\* C10: the facade keeps the kind of a lower failure: a failed price or
\* metadata lookup reaches the caller as MarketDataError, a NetworkError or
\* InvalidOrderError of the dispatcher as that same kind.
C10_FacadePreservesKind ==
    (Sensible /\ Notional) =>
        /\ (seen.ticker.tag = "raise" \/ seen.market.tag = "raise") =>
               (out.status = "raised" /\ out.exc.kind = "MarketDataError")
        /\ (Len(seen.orders) = 1 /\ seen.orders[1].tag = "raise"
              /\ seen.orders[1].exc.kind \in {"ccxt.NetworkError", "ccxt.InvalidOrder"}) =>
               (out.status = "raised" /\ out.exc.kind = C9_Kind(seen.orders[1].exc.kind))

\* the operations the facade offers its callers
FacadeOps == {"market_buy", "market_sell", "limit_buy", "limit_sell", "close_position"}

\* C11: on an initialized client every failing call of market_buy, market_sell,
\* limit_buy, limit_sell or close_position raises an error of the domain
\* taxonomy, whatever request failed and however: no ccxt exception and no
\* other untyped exception reaches the caller.
C11_FailuresAreTyped ==
    (exchange = "ready" /\ call.op \in FacadeOps /\ out.status = "raised") =>
        out.exc.kind \in DomainKinds

C11_Witness ==
    /\ exchange = "ready"
    /\ call.op = "close_position"
    /\ Len(seen.orders) = 2
    /\ seen.orders[2] = Raise("ccxt.ExchangeError")
    /\ out.status = "raised"
    /\ out.exc.kind = "TradingError"

\* C12: a notional operation called with usdt_amount <= 0 is rejected with
\* ValidationError before any request is made of the exchange.
C12_NonPositiveAmountRejected ==
    (exchange = "ready" /\ Notional /\ call.symbol # "" /\ call.amount <= 0
        /\ (call.price.has => call.price.v > 0)) =>
        /\ out.status = "raised"
        /\ out.exc.kind = "ValidationError"
        /\ reqs = <<>>

\* C13: close_position on a snapshot with no nonzero position (empty, or zero
\* amounts only) returns the 'no open positions' result, raises nothing and
\* sends no order.
C13_NothingToClose ==
    (/\ call.op = "close_position"
     /\ seen.positions.tag = "ok"
     /\ NonzeroAmts(seen.positions.val) = <<>>) =>
        /\ out = Returned(Ret("No open positions found for {symbol}", 0))
        /\ SentOrders = <<>>

C13_Witness ==
    /\ call.op = "close_position"
    /\ seen.positions.tag = "ok"
    /\ seen.positions.val = <<Position(0), NoAmtPosition>>
    /\ out.status = "returned"

\* C14: when a closing order is refused, close_position raises: it returns
\* neither 'Closed N position(s)' nor 'No open positions', also when earlier
\* closing orders of the call were accepted.
C14_FailedCloseSurfaces ==
    (call.op = "close_position" /\ \E i \in 1..Len(seen.orders) : seen.orders[i].tag = "raise") =>
        out.status = "raised"

C14_Witness ==
    /\ call.op = "close_position"
    /\ Len(seen.orders) = 2
    /\ seen.orders[1].tag = "ok"
    /\ seen.orders[2].tag = "raise"
    /\ out.status = "raised"

\* C15 as claimed: when a closing order is refused, a closing order is still
\* sent for every remaining nonzero position of the snapshot.
C15_ContinuesAfterFailure ==
    (call.op = "close_position" /\ seen.positions.tag = "ok") =>
        Len(SentOrders) = Len(NonzeroAmts(seen.positions.val))

\* C15 as the code has it: close_position stops at the first refused closing
\* order: that order is the last request of the call, no order is sent for the
\* remaining positions, and the failure is raised.
C15_AbortsAtFirstFailure ==
    call.op = "close_position" =>
        \A i \in 1..Len(seen.orders) :
            seen.orders[i].tag = "raise" =>
                /\ i = Len(SentOrders)
                /\ reqs[Len(reqs)].req = "create_order"
                /\ out.status = "raised"

C15_Witness ==
    /\ call.op = "close_position"
    /\ seen.positions.tag = "ok"
    /\ Len(NonzeroAmts(seen.positions.val)) = 2
    /\ Len(SentOrders) = 1
    /\ seen.orders[1].tag = "raise"
    /\ out.status = "raised"

\* C16 -- Nothing is retried: a call of market_buy, market_sell, limit_buy or
\* limit_sell sends at most one fetch_ticker and at most one createOrder
\* request, a call of close_position one fetch_positions and at most one
\* createOrder per nonzero position of its snapshot; every createOrder request
\* got exactly one answer, and a refused request is the last request of its call.
Count(rs, req) == Cardinality({i \in 1..Len(rs) : rs[i].req = req})

C16_NothingRetried ==
    /\ Len(seen.orders) = Len(SentOrders)
    /\ \A i \in 1..Len(reqs) :
           reqs[i].req = "create_order" /\ seen.orders[Count(SubSeq(reqs, 1, i), "create_order")].tag = "raise"
               => i = Len(reqs)
    /\ Notional => Len(SentOrders) <= 1 /\ Count(reqs, "fetch_ticker") <= 1
    /\ call.op = "close_position" =>
           /\ Count(reqs, "fetch_positions") <= 1
           /\ Len(SentOrders) <= (IF seen.positions.tag = "ok"
                                  THEN Len(NonzeroAmts(seen.positions.val)) ELSE 0)

\* a notional operation whose single order the exchange refused
C16_Witness ==
    /\ Sensible
    /\ call.op = "market_buy"
    /\ Len(SentOrders) = 1
    /\ seen.orders[1].tag = "raise"
    /\ out.status = "raised"

\* C17 -- A notional operation that sends an order has made exactly three
\* requests, in the order price lookup, metadata lookup, createOrder; the ticker
\* fetch and the lookup of the minimum both succeeded, the quotient
\* usdt_amount / P was not below the minimum, and the quantity the order
\* carries is at least the minimum.
C17_LookupCheckSubmit ==
    (Notional /\ SentOrders # <<>>) =>
        /\ Len(reqs) = 3
        /\ reqs[1].req = "fetch_ticker" /\ reqs[2].req = "market" /\ reqs[3].req = "create_order"
        /\ seen.ticker.tag = "ok" /\ seen.market.tag = "ok"
        /\ DecDiv(call.amount, DecimalOfStr(seen.ticker.val)) >= seen.market.val
        /\ SentOrders[1].amount >= seen.market.val

\* a limit_sell of 100 USDT at last price 3: 33.33333 against a minimum of 0.01
C17_Witness ==
    /\ Sensible
    /\ call.op = "limit_sell" /\ call.amount = 100
    /\ seen.ticker = Ok(3) /\ seen.market = Ok(DecScale \div 100)
    /\ Len(SentOrders) = 1
    /\ SentOrders[1].amount >= DecScale \div 100
    /\ out.status = "returned"

\* C18 -- Positions are not cached: a call of close_position that is in its
\* loop or has sent an order has made one fetch_positions request of its own,
\* the positions it walks are the answer to that request, and its orders are
\* those of that answer's nonzero positions, in order (size |a|, the opposing
\* side), whatever snapshot an earlier call of the same caller had.
C18_FetchesItsOwnSnapshot ==
    \A c \in Closers :
        LET f == closer[c].frame
            amts == NonzeroAmts(f.answer)
        IN  /\ f.pc = "loop" => f.asked = 1 /\ f.positions = f.answer
            /\ f.sent # <<>> =>
                   /\ f.asked = 1
                   /\ Len(f.sent) <= Len(amts)
                   /\ \A k \in 1..Len(f.sent) :
                          /\ f.sent[k].amount = Abs(amts[k])
                          /\ SideOf(f.sent[k].side) = (IF amts[k] > 0 THEN "SELL" ELSE "BUY")

\* a caller's second call: the snapshot differs from the first call's and the
\* order sent is the one the new snapshot asks for
C18_Witness ==
    \E c \in Closers :
        LET f == closer[c].frame IN
        /\ closer[c].n >= 1
        /\ closer[c].earlier # <<>>
        /\ f.asked = 1
        /\ f.answer # closer[c].earlier
        /\ Len(f.sent) = 1
        /\ f.sent[1].amount = Abs(f.answer[1].amt)

\* C20 -- With an exchange that honours reduce-only, a closing order that
\* executes never opens exposure on the other side: the position after it lies
\* between zero and the position before it, under every interleaving of two
\* calls of close_position and of fills, also when the order's size comes
\* from a snapshot that is stale when the order executes.
C20_ClosingNeverFlips ==
    executed.has =>
        /\ executed.before # 0
        /\ executed.after * executed.before >= 0
        /\ Abs(executed.after) < Abs(executed.before)

\* an order sized from a stale snapshot (larger than the position it met)
\* executed and left the position flat
C20_Witness ==
    /\ executed.has
    /\ executed.size > Abs(executed.before)
    /\ executed.after = 0

\* C19 -- Calls are independent and not idempotent: after k successful calls
\* of market_buy with the same symbol and usdt_amount the exchange has
\* accepted k createOrder requests of those calls, one per call; no call is
\* answered from an earlier one.
C19_EveryBuyIsItsOwnOrder ==
    /\ buyOrders = buys
    /\ (call.op = "market_buy" /\ out.status = "returned") =>
           Len(SentOrders) = 1 /\ seen.orders[1].tag = "ok"

\* the second successful market_buy("BTCUSDT", 100) has just sent its order
C19_Witness ==
    /\ buys = 2 /\ buyOrders = 2
    /\ call.op = "market_buy" /\ call.symbol = "BTCUSDT" /\ call.amount = 100
    /\ out.status = "returned"
    /\ Len(SentOrders) = 1

---------------------------------------------------------------------------
(* Properties of the tools and of the client under them *)

OpeningTools == {"open_market_long", "open_market_short", "open_limit_long", "open_limit_short"}

ToolOps == OpeningTools \cup {"close_position_tool"}

\* the text is among the pieces of the message
Contains(msg, text) == \E i \in 1..Len(msg) : msg[i] = text

\* C21 -- The cause text survives every layer of wrapping: when a request of
\* market_buy, market_sell, limit_buy, limit_sell or close_position fails, the
\* message of the error the client raises contains the text of the exchange's
\* error, and so does the failure string the tool over it returns.
C21_CauseTextPreserved ==
    (call.op \in FacadeOps \cup ToolOps /\ FailuresSeen # {}) =>
        /\ \A k \in FailuresSeen : Contains(out.exc.msg, CcxtText(k))
        /\ call.op \in FacadeOps => out.status = "raised"
        /\ call.op \in ToolOps =>
               out.status = "returned" /\ out.exc.kind = "str" /\ out.exc.msg[1] \in ToolPrefixes

\* a refused order under open_limit_short: three layers around the cause
C21_Witness ==
    /\ call.op = "open_limit_short"
    /\ FailuresSeen = {"ccxt.InvalidOrder"}
    /\ out.exc.msg = <<"Failed to open limit short position: ", "Failed to create USDT order: ",
                       "Invalid order: ", CcxtText("ccxt.InvalidOrder")>>

---------------------------------------------------------------------------

\* the operations of the client other than initialize
ClientOps ==
    {"market_buy", "market_sell", "limit_buy", "limit_sell", "close_position", "create_order",
     "create_usdt_order", "fetch_positions", "fetch_ticker"}

\* C22 -- No operation of an initialized client changes the client: across
\* every call of market_buy, market_sell, limit_buy, limit_sell,
\* close_position, create_order, fetch_positions or fetch_ticker, successful
\* or failed, the exchange handle and the configuration stay as they were;
\* and once the call has returned nothing of it (requests, answers, result)
\* is left in the state.
C22_OperationsLeaveClientAlone ==
    [][/\ (exchange = "ready" /\ call'.op \in ClientOps)
             => (exchange' = exchange /\ config' = config)
       /\ (call.op \in ClientOps /\ call'.op = "none")
             => (/\ exchange' = exchange /\ config' = config
                 /\ reqs' = <<>> /\ seen' = NothingSeen /\ out' = NoOutcome)]_vars

\* a close_position that failed on the network, the handle still in place
C22_Witness ==
    /\ exchange = "ready"
    /\ config = DefaultSettings
    /\ call.op = "close_position"
    /\ out.status = "raised" /\ out.exc.kind = "NetworkError"

---------------------------------------------------------------------------

\* the order type and side a facade operation's name promises
PromisedType(op) == IF op \in {"market_buy", "market_sell"} THEN "market" ELSE "limit"

PromisedSide(op) == IF op \in {"market_buy", "limit_buy"} THEN "BUY" ELSE "SELL"

\* C23 -- Each facade operation sends the order shape its name promises, for
\* the symbol given: market_buy (MARKET, BUY, no price), market_sell (MARKET,
\* SELL, no price), limit_buy (LIMIT, BUY, the price given), limit_sell
\* (LIMIT, SELL, the price given).
C23_FacadeOrderShape ==
    (exchange = "ready" /\ Notional /\ call.symbol # "" /\ call.amount > 0) =>
        \A i \in 1..Len(SentOrders) :
            /\ SentOrders[i].symbol = call.symbol
            /\ SentOrders[i].type = PromisedType(call.op)
            /\ SideOf(SentOrders[i].side) = PromisedSide(call.op)
            /\ SentOrders[i].price = (IF PromisedType(call.op) = "market" THEN NoPrice ELSE call.price)

\* C24 -- Every LIMIT order that reaches the exchange carries the price the
\* caller gave and that price is positive: for every price given to
\* limit_buy, limit_sell or create_order with type LIMIT, zero and negative
\* ones included, the call sends no order or sends one with exactly that
\* price, > 0.
C24_LimitOrdersCarryPositivePrice ==
    (exchange = "ready" /\ call.symbol # "" /\ call.order_type = "limit"
        /\ call.op \in {"limit_buy", "limit_sell", "create_order"}
        /\ (call.op # "create_order" => call.amount > 0)) =>
        \A i \in 1..Len(SentOrders) :
            /\ SentOrders[i].price.has
            /\ SentOrders[i].price = call.price
            /\ SentOrders[i].price.v > 0

---------------------------------------------------------------------------

\* C25 -- A tool invoked with an empty symbol fails validation: it returns
\* its failure text with "Symbol is required" and makes no request of the
\* exchange (none of the client).
C25_EmptySymbolFailsValidation ==
    (call.op \in ToolOps /\ call.symbol = "") =>
        /\ reqs = <<>>
        /\ out.status = "returned"
        /\ out.exc.kind = "str"
        /\ Len(out.exc.msg) = 2
        /\ out.exc.msg[1] \in ToolPrefixes
        /\ out.exc.msg[2] = "Symbol is required"

\* open_market_long('', 100) on an initialized client
C25_Witness ==
    /\ exchange = "ready"
    /\ call.op = "open_market_long" /\ call.symbol = "" /\ call.amount = 100
    /\ reqs = <<>>
    /\ out.exc.msg = <<"Failed to open market long position: ", "Symbol is required">>

\* the exchange accepted exactly one order in the call
OneOrderAccepted == Len(SentOrders) = 1 /\ Len(seen.orders) = 1 /\ seen.orders[1].tag = "ok"

\* C27 -- An opening tool never lets an exception escape and reports success
\* only for real success: it returns 'Position opened successfully' exactly
\* when the exchange accepted one order in the call, and otherwise a string
\* that starts with one of the 'Failed to ...' texts.
C27_SuccessOnlyWhenAccepted ==
    call.op \in OpeningTools =>
        /\ out.status = "returned"
        /\ out.ret.what = "Position opened successfully" <=> OneOrderAccepted
        /\ ~OneOrderAccepted =>
               out.exc.kind = "str" /\ out.exc.msg[1] \in ToolPrefixes /\ out.ret.what \in ToolPrefixes

\* open_limit_long whose order the exchange accepted
C27_Witness ==
    /\ exchange = "ready"
    /\ call.op = "open_limit_long" /\ call.symbol = "BTCUSDT" /\ call.amount = 100
    /\ call.price = Price(7)
    /\ OneOrderAccepted
    /\ out = Returned(Ret("Position opened successfully", 0))

---------------------------------------------------------------------------

\* C26 -- When close_position completes normally on a snapshot with at least
\* one nonzero position, its result is 'Closed N position(s)' and N is the
\* number of closing orders the exchange accepted in the call, which is the
\* number of nonzero-amount positions of the snapshot.
C26_ClosedCountIsOrdersAccepted ==
    (call.op = "close_position" /\ out.status = "returned"
        /\ Len(NonzeroAmts(seen.positions.val)) >= 1) =>
        /\ out.ret.what = "Closed {n} position(s) for {symbol}"
        /\ out.ret.n = Len(SentOrders)
        /\ Len(seen.orders) = Len(SentOrders)
        /\ \A i \in 1..Len(seen.orders) : seen.orders[i].tag = "ok"
        /\ out.ret.n = Len(NonzeroAmts(seen.positions.val))

\* a snapshot of a flat and a short position: one order, 'Closed 1'
C26_Witness ==
    /\ call.op = "close_position"
    /\ seen.positions.tag = "ok"
    /\ seen.positions.val = <<Position(0), Position(-3 * DecScale)>>
    /\ out = Returned(Ret("Closed {n} position(s) for {symbol}", 1))
    /\ Len(SentOrders) = 1

---------------------------------------------------------------------------

\* the operations that begin with the test of self.exchange
GuardedOps ==
    {"retrieve_balance", "fetch_positions", "fetch_open_orders", "create_order",
     "create_usdt_order", "close_position", "fetch_ticker"}

\* C28 -- On a client that was constructed and never initialized, every
\* operation fails with ExchangeError 'Exchange client not initialized'
\* without a request to the exchange, and is_connected returns false.
C28_UninitializedClientRefuses ==
    exchange = "unset" =>
        /\ call.op \in GuardedOps =>
               /\ reqs = <<>>
               /\ out.status = "raised"
               /\ out.exc.kind = "ExchangeError"
               /\ out.exc.msg = <<"Exchange client not initialized">>
        /\ call.op = "is_connected" => out = Returned(Ret("False", 0))

====
